---- MODULE Spec2Model ----
(***************************************************************************)
(* Model of swcpy.SWCClient (chapter7/sdk/src/swcpy/swc_client.py): the    *)
(* call dispatcher call_api, the backoff.on_exception wrapper installed by *)
(* the constructor, the typed endpoint operations and the bulk file        *)
(* operations.  One client, one call in progress at a time.  Time is       *)
(* counted in ticks of 1/TicksPerSecond second since the call started.     *)
(***************************************************************************)
EXTENDS Integers, Sequences, FiniteSets, TLC

\* ------------------------------------------------------------------ bounds
MaxBudgetSeconds == 2
MaxAttemptTicks == 1
TicksPerSecond == 2
MaxListLen == 2
MaxId == 1
MaxRedirects == 1

\* --------------------------------------------------------------- constants
\* backoff.expo: base 2, factor 1 (wait_gen=backoff.expo, no wait_gen_kwargs)
ExpoBase == 2

HEALTH_CHECK_ENDPOINT == <<"/">>
LIST_LEAGUES_ENDPOINT == <<"/v0/leagues/">>
LIST_PLAYERS_ENDPOINT == <<"/v0/players/">>
LIST_PERFORMANCES_ENDPOINT == <<"/v0/performances/">>
LIST_TEAMS_ENDPOINT == <<"/v0/teams/">>
GET_COUNTS_ENDPOINT == <<"/v0/counts/">>
BULK_FILE_BASE_URL == <<"https://raw.githubusercontent.com/[github ID]", "/portfolio-project/main/bulk/">>

\* Strings are modelled as sequences of segments; + is concatenation.
Concat(a, b) == a \o b

\* Python's None as a parameter value, and the non-null values drawn.
None == "<None>"
ParamValues == {None, "0"}

\* str.lower() on the bulk file format strings that are drawn.
Lower(s) ==
    CASE s = "Parquet" -> "parquet"
      [] s = "PARQUET" -> "parquet"
      [] s = "CSV" -> "csv"
      [] OTHER -> s

BulkFormats == {"csv", "parquet", "Parquet"}
BulkKeys == {"players", "leagues", "performances", "teams", "team_players"}

VARIABLES
    swc_base_url, backoff, backoff_max_time, bulk_file_format,
    BULK_FILE_NAMES, dispatcher,
    pc, op, endpoint, api_params, request, attempts, redirects, tries, now,
    elapsed, seconds, response, outcome, result,
    peer

clientVars == <<swc_base_url, backoff, backoff_max_time, bulk_file_format,
                BULK_FILE_NAMES, dispatcher>>
callVars == <<pc, op, endpoint, api_params, request, attempts, redirects, tries,
              now, elapsed, seconds, response, outcome, result>>
vars == <<clientVars, callVars, peer>>

\* ------------------------------------------------------------ construction
\* The configuration value handed to the constructor (swc_config.SWCConfig).
SWCConfigs ==
    [swc_base_url : {"http://0.0.0.0:8000"},
     swc_backoff : BOOLEAN,
     swc_backoff_max_time : 0..MaxBudgetSeconds,
     swc_bulk_file_format : BulkFormats]

\* self.BULK_FILE_NAMES as first assigned: the static root names.
BulkFileRoots ==
    [k \in BulkKeys |->
        CASE k = "players" -> <<"player_data">>
          [] k = "leagues" -> <<"league_data">>
          [] k = "performances" -> <<"performance_data">>
          [] k = "teams" -> <<"team_data">>
          [] k = "team_players" -> <<"team_player_data">>]

\* Mutant of BulkFileNames: the suffix is appended by both branches in turn.
BulkFileNamesDoubleSuffix(fmt) ==
    IF Lower(fmt) = "parquet"
    THEN [k \in BulkKeys |-> Concat(Concat(BulkFileRoots[k], <<".parquet">>), <<".csv">>)]
    ELSE [k \in BulkKeys |-> Concat(BulkFileRoots[k], <<".csv">>)]

\* The extension is appended once, chosen by the lower-cased format.
BulkFileNames(fmt) ==
    IF Lower(fmt) = "parquet"
    THEN [k \in BulkKeys |-> Concat(BulkFileRoots[k], <<".parquet">>)]
    ELSE [k \in BulkKeys |-> Concat(BulkFileRoots[k], <<".csv">>)]

\* Mutant of Installed: the retry wrapper is installed whatever the flag.
InstalledAlways(b) == "on_exception"

\* if self.backoff: self.call_api = backoff.on_exception(...)(self.call_api)
Installed(b) == IF b THEN "on_exception" ELSE "direct"

\* ------------------------------------------------------------ wire values
StatusCodes == {200, 204, 404, 500}

\* Field sets of the typed records (swcpy.schemas).
Fields(kind) ==
    CASE kind = "League" -> {"league_id", "league_name", "teams"}
      [] kind = "Team" -> {"team_id", "team_name", "league_id"}
      [] kind = "Player" -> {"player_id", "first_name", "last_name"}
      [] kind = "Performance" -> {"performance_id", "player_id", "fantasy_points"}
      [] kind = "Counts" -> {"league_count", "team_count", "player_count"}

Kinds == {"League", "Team", "Player", "Performance", "Counts"}

\* A JSON object is the set of its member names (values are opaque).
FullObject(kind) == Fields(kind)
PartialObject(kind) == Fields(kind) \ {CHOOSE f \in Fields(kind) : TRUE}
DetailObject == {"detail"}
MessageObject == {"message"}

\* Response bodies: text that is no JSON, a JSON object, a JSON array of
\* objects, or the bytes of a bulk file.
TextBody == [tag |-> "text", fields |-> {}, items |-> <<>>]
BytesBody == [tag |-> "bytes", fields |-> {}, items |-> <<>>]
NoBody == [tag |-> "none", fields |-> {}, items |-> <<>>]
ObjectBody(o) == [tag |-> "object", fields |-> o, items |-> <<>>]
ArrayBody(s) == [tag |-> "array", fields |-> {}, items |-> s]

SeqsUpTo(S, n) == UNION {[1..m -> S] : m \in 0..n}

\* The bodies a server may send on an endpoint whose record kind is `kind`.
BodiesFor(kind) ==
    {TextBody, ObjectBody(DetailObject)}
    \cup {ObjectBody(FullObject(kind)), ObjectBody(PartialObject(kind))}
    \cup {ArrayBody(s) : s \in SeqsUpTo({FullObject(kind), PartialObject(kind)}, MaxListLen)}

HealthBodies == {TextBody, ObjectBody(MessageObject), ObjectBody(DetailObject)}

NoResponse == [status |-> 0, body |-> NoBody]
Response(s, b) == [status |-> s, body |-> b]

\* What the network does with one GET: a transport failure, or a response.
TransportError == [error |-> TRUE, resp |-> NoResponse]
Answer(r) == [error |-> FALSE, resp |-> r]

\* ------------------------------------------------------------- parameters
\* api_params: absent (api_params=None) or a dict from names to values.
EmptyDict == [k \in {} |-> None]
NoParams == [present |-> FALSE, dict |-> EmptyDict]
Params(d) == [present |-> TRUE, dict |-> d]

\* Mutant of SanitizeParams: the dict is passed on as it came.
SanitizeParamsKeepAll(p) == p

\* if api_params: api_params = {key: val for ... if val is not None}
SanitizeParams(p) ==
    IF p.present /\ DOMAIN p.dict # {}
    THEN Params([k \in {x \in DOMAIN p.dict : p.dict[x] # None} |-> p.dict[k]])
    ELSE p

\* The parameter names that go out with a request.
SentKeys(req) == IF req.params.present THEN DOMAIN req.params.dict ELSE {}
NonNullKeys(p) == IF p.present THEN {k \in DOMAIN p.dict : p.dict[k] # None} ELSE {}

NoRequest == [endpoint |-> <<>>, params |-> NoParams]

\* ------------------------------------------------------------ dispatcher
NoOutcome == [kind |-> "none", exc |-> "", resp |-> NoResponse]
Returned(r) == [kind |-> "return", exc |-> "", resp |-> r]
Raised(e, r) == [kind |-> "raise", exc |-> e, resp |-> r]

\* client.get(api_endpoint, params=api_params): the request that goes out.
Get(ep, p) == [endpoint |-> ep, params |-> SanitizeParams(p)]

\* The body of call_api after the GET: client.get raises httpx.RequestError
\* on a transport failure and returns the response for every status (there
\* is no raise_for_status); the debug f-string evaluates response.json(),
\* which raises json.JSONDecodeError on a body that is no JSON; the except
\* clauses log and re-raise.
call_api(net) ==
    IF net.error THEN Raised("RequestError", NoResponse)
    ELSE IF net.resp.body.tag = "text" THEN Raised("JSONDecodeError", net.resp)
    ELSE Returned(net.resp)

\* ----------------------------------------------------------- retry policy
\* Mutant of RetryExceptions: the transport failure is left out.
RetryExceptionsStatusOnly == {"HTTPStatusError"}

\* exception=(httpx.RequestError, httpx.HTTPStatusError)
RetryExceptions == {"RequestError", "HTTPStatusError"}

Min(a, b) == IF a <= b THEN a ELSE b

\* max_time=self.backoff_max_time, in ticks
MaxTimeTicks == backoff_max_time * TicksPerSecond

\* backoff.expo: the wait after the n-th try is ExpoBase^(n-1) seconds.
Expo(n) == ExpoBase ^ (n - 1)

\* jitter=backoff.random_jitter adds j in [0, 1) second; on_exception never
\* sleeps longer than what is left of max_time, counted from the elapsed
\* time it measured before the try.
NextWait(n, j, el) == Min(Expo(n) * TicksPerSecond + j, MaxTimeTicks - el)

\* Mutant of GiveUp: a maximum number of tries is set as well.
GiveUpAfterTries(el) == tries >= 2 \/ el >= backoff_max_time * TicksPerSecond

\* on_exception gives up, and re-raises, when the elapsed time measured
\* before the try has reached max_time (max_tries is not set).
GiveUp(el) == el >= MaxTimeTicks

\* Whether the installed dispatcher makes another try after outcome `out`.
Retries(out, el) ==
    /\ dispatcher = "on_exception"
    /\ out.kind = "raise"
    /\ out.exc \in RetryExceptions
    /\ ~GiveUp(el)

\* ---------------------------------------------------------- typed mapping
NoValue == [tag |-> "none", resp |-> NoResponse, recs |-> <<>>]
NoResult == [kind |-> "none", exc |-> "", value |-> NoValue]
Return(tag, r, recs) == [kind |-> "return", exc |-> "", value |-> [tag |-> tag, resp |-> r, recs |-> recs]]
Raise(e) == [kind |-> "raise", exc |-> e, value |-> NoValue]

\* Kind(**obj): the record's fields must all be there, or validation fails
\* and no record is built.
Valid(kind, obj) == Fields(kind) \subseteq obj
Record(kind, obj) == [type |-> kind, fields |-> obj \cap Fields(kind)]

\* Kind(**response.json()): ** of a JSON array is a TypeError.
MapOne(kind, body) ==
    IF body.tag = "array" THEN Raise("TypeError")
    ELSE IF Valid(kind, body.fields)
    THEN Return("record", NoResponse, <<Record(kind, body.fields)>>)
    ELSE Raise("ValidationError")

\* Mutant of MapList: the elements that do not validate are left out.
MapListSkipInvalid(kind, body) ==
    IF body.tag = "object"
    THEN IF body.fields = {} THEN Return("records", NoResponse, <<>>) ELSE Raise("TypeError")
    ELSE Return("records", NoResponse,
                SelectSeq([i \in 1..Len(body.items) |-> Record(kind, body.items[i])],
                          LAMBDA r : r.fields = Fields(kind)))

\* [Kind(**x) for x in response.json()]: iterating a JSON object yields its
\* member names, and ** of a string is a TypeError; one element that does
\* not validate fails the whole comprehension.
MapList(kind, body) ==
    IF body.tag = "object"
    THEN IF body.fields = {} THEN Return("records", NoResponse, <<>>) ELSE Raise("TypeError")
    ELSE IF \A i \in 1..Len(body.items) : Valid(kind, body.items[i])
    THEN Return("records", NoResponse, [i \in 1..Len(body.items) |-> Record(kind, body.items[i])])
    ELSE Raise("ValidationError")

\* ------------------------------------------------------------- operations
ListOps == {"list_leagues", "list_teams", "list_players", "list_performances"}
ByIdOps == {"get_league_by_id", "get_player_by_id"}
EndpointOps == ListOps \cup ByIdOps \cup {"get_counts", "get_health_check"}
BulkOps == {"get_bulk_player_file", "get_bulk_league_file", "get_bulk_performance_file",
            "get_bulk_team_file", "get_bulk_team_player_file"}

\* The record type each typed operation builds.
OpKind(o) ==
    CASE o \in {"list_leagues", "get_league_by_id"} -> "League"
      [] o = "list_teams" -> "Team"
      [] o \in {"list_players", "get_player_by_id"} -> "Player"
      [] o = "list_performances" -> "Performance"
      [] o = "get_counts" -> "Counts"

\* What the server may answer to a request of operation o.
ServerBodies(o) == IF o = "get_health_check" THEN HealthBodies ELSE BodiesFor(OpKind(o))
NetOutcomes(o) ==
    {TransportError} \cup {Answer(Response(s, b)) : s \in StatusCodes, b \in ServerBodies(o)}

\* What the operation does with what self.call_api gave it: an exception
\* passes through; get_health_check returns the response; the others map it.
EndpointResult(o, out) ==
    IF out.kind = "raise" THEN Raise(out.exc)
    ELSE IF o = "get_health_check" THEN Return("response", out.resp, <<>>)
    ELSE IF o \in ListOps THEN MapList(OpKind(o), out.resp.body)
    ELSE MapOne(OpKind(o), out.resp.body)

\* ------------------------------------------------------------------- Init
\* The state after SWCClient(input_config), no call in progress.
\* A second thread that calls operations of the same client object: where
\* its call stands. Its locals are its own; it reads the client's attributes.
PeerIdle == [pc |-> "idle", op |-> ""]

Init ==
    /\ \E cfg \in SWCConfigs :
        /\ swc_base_url = cfg.swc_base_url
        /\ backoff = cfg.swc_backoff
        /\ backoff_max_time = cfg.swc_backoff_max_time
        /\ bulk_file_format = cfg.swc_bulk_file_format
        /\ dispatcher = Installed(cfg.swc_backoff)
        /\ BULK_FILE_NAMES = BulkFileNames(cfg.swc_bulk_file_format)
    /\ pc = "idle"
    /\ op = ""
    /\ endpoint = <<>>
    /\ api_params = NoParams
    /\ request = NoRequest
    /\ attempts = 0
    /\ redirects = 0
    /\ tries = 0
    /\ now = 0
    /\ elapsed = 0
    /\ seconds = 0
    /\ response = NoResponse
    /\ outcome = NoOutcome
    /\ result = NoResult
    /\ peer = PeerIdle

\* ---------------------------------------------------------------- actions
\* An endpoint operation is entered: it builds the endpoint and the
\* parameters and calls self.call_api.
Begin(o, ep, p) ==
    /\ pc = "idle"
    /\ pc' = "attempt"
    /\ op' = o
    /\ endpoint' = ep
    /\ api_params' = p
    /\ request' = NoRequest
    /\ attempts' = 0
    /\ redirects' = 0
    /\ tries' = 0
    /\ now' = 0
    /\ elapsed' = 0
    /\ seconds' = 0
    /\ response' = NoResponse
    /\ outcome' = NoOutcome
    /\ result' = NoResult
    /\ UNCHANGED <<clientVars, peer>>

get_health_check == Begin("get_health_check", HEALTH_CHECK_ENDPOINT, NoParams)

list_leagues ==
    \E skip, limit, date, name \in ParamValues :
        Begin("list_leagues", LIST_LEAGUES_ENDPOINT,
              Params([k \in {"skip", "limit", "minimum_last_changed_date", "league_name"} |->
                  CASE k = "skip" -> skip
                    [] k = "limit" -> limit
                    [] k = "minimum_last_changed_date" -> date
                    [] k = "league_name" -> name]))

get_league_by_id ==
    \E league_id \in 1..MaxId :
        Begin("get_league_by_id", Concat(LIST_LEAGUES_ENDPOINT, <<ToString(league_id)>>), NoParams)

get_counts == Begin("get_counts", GET_COUNTS_ENDPOINT, NoParams)

list_teams ==
    \E skip, limit, date, name, league_id \in ParamValues :
        Begin("list_teams", LIST_TEAMS_ENDPOINT,
              Params([k \in {"skip", "limit", "minimum_last_changed_date", "team_name", "league_id"} |->
                  CASE k = "skip" -> skip
                    [] k = "limit" -> limit
                    [] k = "minimum_last_changed_date" -> date
                    [] k = "team_name" -> name
                    [] k = "league_id" -> league_id]))

list_players ==
    \E skip, limit, date, first, last \in ParamValues :
        Begin("list_players", LIST_PLAYERS_ENDPOINT,
              Params([k \in {"skip", "limit", "minimum_last_changed_date", "first_name", "last_name"} |->
                  CASE k = "skip" -> skip
                    [] k = "limit" -> limit
                    [] k = "minimum_last_changed_date" -> date
                    [] k = "first_name" -> first
                    [] k = "last_name" -> last]))

get_player_by_id ==
    \E player_id \in 1..MaxId :
        Begin("get_player_by_id", Concat(LIST_PLAYERS_ENDPOINT, <<ToString(player_id)>>), NoParams)

list_performances ==
    \E skip, limit, date \in ParamValues :
        Begin("list_performances", LIST_PERFORMANCES_ENDPOINT,
              Params([k \in {"skip", "limit", "minimum_last_changed_date"} |->
                  CASE k = "skip" -> skip
                    [] k = "limit" -> limit
                    [] k = "minimum_last_changed_date" -> date]))

\* A try starts: on_exception counts it and measures the elapsed time, and
\* call_api sanitizes the parameters and sends the GET.
\* Mutant of Send: the retry wrapper is installed anew on the client when a
\* try starts.
SendInstallingRetry ==
    /\ pc = "attempt"
    /\ tries' = tries + 1
    /\ elapsed' = now
    /\ request' = Get(endpoint, api_params)
    /\ attempts' = attempts + 1
    /\ pc' = "inflight"
    /\ dispatcher' = "on_exception"
    /\ UNCHANGED <<swc_base_url, backoff, backoff_max_time, bulk_file_format,
                   BULK_FILE_NAMES, peer, op, endpoint, api_params, redirects, now,
                   seconds, response, outcome, result>>

Send ==
    /\ pc = "attempt"
    /\ tries' = tries + 1
    /\ elapsed' = now
    /\ request' = Get(endpoint, api_params)
    /\ attempts' = attempts + 1
    /\ pc' = "inflight"
    /\ UNCHANGED <<clientVars, peer, op, endpoint, api_params, redirects, now,
                   seconds, response, outcome, result>>

\* The try ends after d ticks: call_api returns or raises, and either the
\* wrapper picks the next wait, or the operation ends with its result and
\* its locals are gone.
Receive ==
    /\ pc = "inflight"
    /\ \E net \in NetOutcomes(op), d \in 0..MaxAttemptTicks :
        LET out == call_api(net)
        IN  /\ now' = now + d
            /\ response' = net.resp
            /\ outcome' = out
            /\ request' = NoRequest
            /\ IF Retries(out, elapsed)
               THEN /\ pc' = "sleep"
                    /\ \E j \in 0..(TicksPerSecond - 1) :
                          seconds' = NextWait(tries, j, elapsed)
                    /\ UNCHANGED <<result, endpoint, api_params>>
               ELSE /\ pc' = "done"
                    /\ seconds' = 0
                    /\ result' = EndpointResult(op, out)
                    /\ endpoint' = <<>>
                    /\ api_params' = NoParams
    /\ UNCHANGED <<clientVars, peer, op, attempts, redirects, tries, elapsed>>

\* time.sleep(seconds) between two tries.
Sleep ==
    /\ pc = "sleep"
    /\ now' = now + seconds
    /\ pc' = "attempt"
    /\ UNCHANGED <<clientVars, peer, op, endpoint, api_params, request, attempts,
                   redirects, tries, elapsed, seconds, response, outcome, result>>

\* Mutant of BulkResult: every 2xx status counts as a download.
BulkResultAny2xx(r) ==
    IF r.status \in 200..299 THEN Return("content", r, <<>>) ELSE Return("None", NoResponse, <<>>)

\* return response.content if the status is 200, None otherwise.
BulkResult(r) ==
    IF r.status = 200 THEN Return("content", r, <<>>) ELSE Return("None", NoResponse, <<>>)

BulkResponses == {Response(s, b) : s \in StatusCodes, b \in {BytesBody, TextBody}}

\* Mutant of BulkFile: with retry enabled a fetch that failed in transport
\* is made a second time.
BulkFileRetried(o, key) ==
    /\ pc = "idle"
    /\ \E net \in {TransportError} \cup {Answer(r) : r \in BulkResponses},
          hops \in 0..MaxRedirects :
        /\ request' = [endpoint |-> Concat(BULK_FILE_BASE_URL, BULK_FILE_NAMES[key]),
                       params |-> NoParams]
        /\ response' = net.resp
        /\ result' = IF net.error THEN Raise("RequestError") ELSE BulkResult(net.resp)
        /\ redirects' = hops
        /\ attempts' = IF net.error /\ dispatcher = "on_exception"
                       THEN 2 + hops ELSE 1 + hops
    /\ pc' = "done"
    /\ op' = o
    /\ endpoint' = <<>>
    /\ api_params' = NoParams
    /\ tries' = 0
    /\ now' = 0
    /\ elapsed' = 0
    /\ seconds' = 0
    /\ outcome' = NoOutcome
    /\ UNCHANGED <<clientVars, peer>>

\* A bulk file operation: one httpx.get of base URL + file name with
\* follow_redirects=True. The server answers hops times with a redirect, each
\* followed by one more GET, and then with the final response or a transport
\* failure, which is not caught.
BulkFile(o, key) ==
    /\ pc = "idle"
    /\ \E net \in {TransportError} \cup {Answer(r) : r \in BulkResponses},
          hops \in 0..MaxRedirects :
        /\ request' = [endpoint |-> Concat(BULK_FILE_BASE_URL, BULK_FILE_NAMES[key]),
                       params |-> NoParams]
        /\ response' = net.resp
        /\ result' = IF net.error THEN Raise("RequestError") ELSE BulkResult(net.resp)
        /\ redirects' = hops
        /\ attempts' = 1 + hops
    /\ pc' = "done"
    /\ op' = o
    /\ endpoint' = <<>>
    /\ api_params' = NoParams
    /\ tries' = 0
    /\ now' = 0
    /\ elapsed' = 0
    /\ seconds' = 0
    /\ outcome' = NoOutcome
    /\ UNCHANGED <<clientVars, peer>>

get_bulk_player_file == BulkFile("get_bulk_player_file", "players")
get_bulk_league_file == BulkFile("get_bulk_league_file", "leagues")
get_bulk_performance_file == BulkFile("get_bulk_performance_file", "performances")
get_bulk_team_file == BulkFile("get_bulk_team_file", "teams")
get_bulk_team_player_file == BulkFile("get_bulk_team_player_file", "team_players")

\* The caller has the result; the client is ready for the next call.
Finish ==
    /\ pc = "done"
    /\ pc' = "idle"
    /\ op' = ""
    /\ endpoint' = <<>>
    /\ api_params' = NoParams
    /\ request' = NoRequest
    /\ attempts' = 0
    /\ redirects' = 0
    /\ tries' = 0
    /\ now' = 0
    /\ elapsed' = 0
    /\ seconds' = 0
    /\ response' = NoResponse
    /\ outcome' = NoOutcome
    /\ result' = NoResult
    /\ UNCHANGED <<clientVars, peer>>

Next ==
    \/ get_health_check
    \/ list_leagues
    \/ get_league_by_id
    \/ get_counts
    \/ list_teams
    \/ list_players
    \/ get_player_by_id
    \/ list_performances
    \/ Send
    \/ Receive
    \/ Sleep
    \/ get_bulk_player_file
    \/ get_bulk_league_file
    \/ get_bulk_performance_file
    \/ get_bulk_team_file
    \/ get_bulk_team_player_file
    \/ Finish

Spec == Init /\ [][Next]_vars

\* The retry loop alone: a client whose bulk format is csv, and one raw, one
\* single-record and one list operation (the loop reads neither the format
\* nor which endpoint is called). A call that has started runs on: a try or
\* a sleep that can be made is made (the calls block, nothing cancels them).
RetryInit == Init /\ bulk_file_format = "csv"

RetryStep == Send \/ Receive \/ Sleep

NextRetry ==
    \/ get_health_check
    \/ get_counts
    \/ list_performances
    \/ RetryStep
    \/ Finish

RetrySpec == RetryInit /\ [][NextRetry]_vars /\ WF_vars(RetryStep)

\* ------------------------------------------------- calls from two threads
\* The second thread enters an endpoint operation of the same client.
PeerBegin(o) ==
    /\ peer.pc = "idle"
    /\ peer' = [pc |-> "attempt", op |-> o]
    /\ UNCHANGED <<clientVars, callVars>>

PeerCall == \E o \in EndpointOps : PeerBegin(o)

\* Its try starts: call_api sends the GET.
PeerSend ==
    /\ peer.pc = "attempt"
    /\ peer' = [peer EXCEPT !.pc = "inflight"]
    /\ UNCHANGED <<clientVars, callVars>>

\* Its try ends: with the wrapper installed it may be retried after a sleep,
\* otherwise the operation ends (returning or raising).
PeerReceive ==
    /\ peer.pc = "inflight"
    /\ \E retry \in (IF dispatcher = "on_exception" THEN BOOLEAN ELSE {FALSE}) :
          peer' = [peer EXCEPT !.pc = IF retry THEN "sleep" ELSE "done"]
    /\ UNCHANGED <<clientVars, callVars>>

PeerSleep ==
    /\ peer.pc = "sleep"
    /\ peer' = [peer EXCEPT !.pc = "attempt"]
    /\ UNCHANGED <<clientVars, callVars>>

\* The second thread runs a bulk file operation, reading BULK_FILE_NAMES.
PeerBulkFile(o, key) ==
    /\ peer.pc = "idle"
    /\ key \in DOMAIN BULK_FILE_NAMES
    /\ peer' = [pc |-> "done", op |-> o]
    /\ UNCHANGED <<clientVars, callVars>>

PeerBulk ==
    \/ PeerBulkFile("get_bulk_player_file", "players")
    \/ PeerBulkFile("get_bulk_league_file", "leagues")
    \/ PeerBulkFile("get_bulk_performance_file", "performances")
    \/ PeerBulkFile("get_bulk_team_file", "teams")
    \/ PeerBulkFile("get_bulk_team_player_file", "team_players")

PeerFinish ==
    /\ peer.pc = "done"
    /\ peer' = PeerIdle
    /\ UNCHANGED <<clientVars, callVars>>

PeerStep == PeerCall \/ PeerSend \/ PeerReceive \/ PeerSleep \/ PeerBulk \/ PeerFinish

\* Two threads share one client; their steps interleave in any order.
NextThreads ==
    \/ get_health_check
    \/ get_counts
    \/ get_bulk_player_file
    \/ RetryStep
    \/ Finish
    \/ PeerStep

ThreadsSpec == Init /\ [][NextThreads]_vars

\* ================================================================== claims
IsSuccess(status) == status \in 200..299
Done == pc = "done"
Retrying == dispatcher = "on_exception"

\* C1: the parameter names that go out with a GET of call_api are among the
\* input names whose value is not None, and no value sent is None, on the
\* first try and on every later one.
C1_SentKeysAreNonNull ==
    pc = "inflight" =>
        /\ SentKeys(request) \subseteq NonNullKeys(api_params)
        /\ \A k \in SentKeys(request) : request.params.dict[k] # None

\* A second try is in flight for a dict that mixes None and other values.
C1_Witness ==
    /\ pc = "inflight"
    /\ tries >= 2
    /\ api_params.present
    /\ \E k \in DOMAIN api_params.dict : api_params.dict[k] = None
    /\ SentKeys(request) # {}

\* C3: with retry disabled an endpoint operation makes exactly one GET, never
\* sleeps, and an exception of call_api reaches the caller as it was raised.
C3_DisabledOneAttempt ==
    (~backoff /\ op \in EndpointOps) =>
        /\ pc # "sleep"
        /\ attempts <= 1
        /\ Done => /\ attempts = 1
                   /\ outcome.kind = "raise" => result = Raise(outcome.exc)

\* Retry is disabled and the single try ended in a transport failure.
C3_Witness ==
    /\ Done
    /\ ~backoff
    /\ op \in EndpointOps
    /\ outcome = Raised("RequestError", NoResponse)
    /\ result = Raise("RequestError")

\* C4 (as claimed): a response with a non-success status (and a JSON body, as
\* the API's error answers have) makes call_api raise an HTTPStatusError that
\* carries that response.
C4_StatusFailureSignalled ==
    (Done /\ op \in EndpointOps /\ response # NoResponse /\ response.body.tag # "text"
          /\ ~IsSuccess(response.status)) =>
        outcome = Raised("HTTPStatusError", response)

\* C6 (as claimed): a by-id operation answered with 404 and the not-found
\* body fails with NotFound, a kind of its own.
C6_NotFoundSignalled ==
    (Done /\ op \in ByIdOps /\ response = Response(404, ObjectBody(DetailObject))) =>
        result = Raise("NotFound")

\* C9 (as claimed): a bulk file operation returns the body for every 2xx final
\* status and None for every other status.
C9_BodyOnAny2xx ==
    (Done /\ op \in BulkOps /\ response # NoResponse) =>
        IF IsSuccess(response.status)
        THEN result = Return("content", response, <<>>)
        ELSE result = Return("None", NoResponse, <<>>)

\* C9 (amended): a bulk file operation returns the body when the final status
\* is 200, and None, without raising, for every other status, 2xx or not.
C9_BodyOn200Only ==
    (Done /\ op \in BulkOps /\ response # NoResponse) =>
        IF response.status = 200
        THEN result = Return("content", response, <<>>) /\ result.value.resp.body = response.body
        ELSE result = Return("None", NoResponse, <<>>)

\* A bulk file operation got a 2xx status other than 200 and returned None.
C9_Witness ==
    /\ Done
    /\ op \in BulkOps
    /\ response.status = 204
    /\ result = Return("None", NoResponse, <<>>)

\* The extension of a configured format.
ExtensionOf(fmt) ==
    CASE fmt \in {"parquet", "Parquet", "PARQUET"} -> ".parquet"
      [] fmt \in {"csv", "CSV"} -> ".csv"

\* C10: every file name of the table is its root name followed by exactly one
\* extension, the one of the configured format, in every state of the client.
C10_OneExtension ==
    \A k \in BulkKeys :
        /\ Len(BULK_FILE_NAMES[k]) = Len(BulkFileRoots[k]) + 1
        /\ SubSeq(BULK_FILE_NAMES[k], 1, Len(BulkFileRoots[k])) = BulkFileRoots[k]
        /\ BULK_FILE_NAMES[k][Len(BULK_FILE_NAMES[k])] = ExtensionOf(bulk_file_format)

\* A client configured with a capitalised format has served a bulk file call.
C10_Witness ==
    /\ Done
    /\ op = "get_bulk_team_player_file"
    /\ bulk_file_format = "Parquet"
    /\ BULK_FILE_NAMES["team_players"] = <<"team_player_data", ".parquet">>

\* A try of the retrying dispatcher ends in this step with a failure that
\* the retry policy intercepts.
TransientFailure ==
    /\ pc = "inflight"
    /\ Retrying
    /\ outcome'.kind = "raise"
    /\ outcome'.exc \in {"RequestError", "HTTPStatusError"}

\* C2: with retry enabled, a transient failure of the dispatcher while the
\* elapsed time is under the budget is followed by a wait and then another try, a
\* try that returns ends the operation with the result mapped from that
\* response, a transient failure of a try started once the budget was used
\* up is raised as it is.
C2_RetryUntilSuccessOrBudget ==
    /\ [][(TransientFailure /\ now' < MaxTimeTicks) => pc' = "sleep"]_vars
    /\ [][(TransientFailure /\ elapsed >= MaxTimeTicks) =>
            (pc' = "done" /\ result' = Raise(outcome'.exc))]_vars
    /\ [][(pc = "inflight" /\ Retrying /\ outcome'.kind = "return") =>
            (pc' = "done" /\ outcome'.resp = response'
             /\ result' = EndpointResult(op, Returned(response')))]_vars
    /\ (pc = "sleep") ~> (pc = "inflight")

\* Two transport failures, two waits, and the third try returned a response
\* that the operation mapped to a record.
C2_Witness ==
    /\ Done
    /\ Retrying
    /\ attempts = 3
    /\ outcome.kind = "return"
    /\ result.kind = "return"

\* C5 (as claimed): with retry enabled and budget left, a response with a
\* non-success status (and a JSON body, as the API's error answers have) is
\* followed by a wait and another try.
C5_StatusRetried ==
    [][(pc = "inflight" /\ Retrying /\ now' < MaxTimeTicks
        /\ response' # NoResponse /\ response'.body.tag # "text"
        /\ ~IsSuccess(response'.status)) => pc' = "sleep"]_vars

\* C7 (as claimed): once the elapsed time exceeds the budget no further try
\* is made.
C7_NoAttemptPastBudget ==
    [][(pc = "attempt" /\ Retrying /\ tries >= 1 /\ now > MaxTimeTicks) => pc' # "inflight"]_vars

\* C7 (amended): the budget is compared with the elapsed time measured when a
\* try starts. A try that starts once the budget is used up is still made;
\* when it fails no wait and no further try follow and that failure is raised.
\* A transport failure is raised only then, whatever the number of tries, and
\* the operation ends for every budget.
C7_TerminatesAtBudget ==
    /\ [][(TransientFailure /\ elapsed >= MaxTimeTicks) =>
            (pc' = "done" /\ attempts' = attempts /\ result' = Raise(outcome'.exc))]_vars
    /\ [](pc = "sleep" => elapsed < MaxTimeTicks /\ elapsed + seconds <= MaxTimeTicks)
    /\ []((Done /\ Retrying /\ op \in EndpointOps /\ result = Raise("RequestError")) =>
            (elapsed >= MaxTimeTicks /\ outcome = Raised("RequestError", NoResponse)))
    /\ (pc = "attempt") ~> Done

\* Every try failed; the last one started after the budget had been exceeded
\* and its failure was raised.
C7_Witness ==
    /\ Done
    /\ Retrying
    /\ backoff_max_time > 0
    /\ attempts >= 2
    /\ elapsed > MaxTimeTicks
    /\ result = Raise("RequestError")

\* Whether the payload is what the typed operation o maps without failure.
Matches(o, body) ==
    IF o \in ListOps
    THEN body.tag = "array" /\ \A i \in 1..Len(body.items) : Fields(OpKind(o)) \subseteq body.items[i]
    ELSE body.tag = "object" /\ Fields(OpKind(o)) \subseteq body.fields

TypedOps == EndpointOps \ {"get_health_check"}

\* C8: once call_api has returned a response to a typed operation, no wait
\* and no further GET follow, with retry enabled or disabled; if the payload
\* is the not-found answer or does not match the record fields, the operation
\* raises and returns no record and no list, not even a partial one.
C8_MappingFailureNotRetried ==
    /\ [][(pc = "inflight" /\ op \in TypedOps /\ outcome'.kind = "return") =>
            (pc' = "done" /\ attempts' = attempts)]_vars
    /\ []((Done /\ op \in TypedOps /\ outcome.kind = "return"
            /\ ~Matches(op, outcome.resp.body)) =>
            (result.kind = "raise" /\ result.exc \in {"ValidationError", "TypeError"}
             /\ result.value = NoValue))

\* Retry is enabled, the list came back with a good element followed by one
\* that lacks a field, and the operation raised after its only GET.
C8_Witness ==
    /\ Done
    /\ Retrying
    /\ backoff_max_time > 0
    /\ op = "list_leagues"
    /\ outcome.kind = "return"
    /\ outcome.resp.body = ArrayBody(<<FullObject("League"), PartialObject("League")>>)
    /\ attempts = 1
    /\ result = Raise("ValidationError")

\* C11 (as claimed): get_health_check hands the caller the response the server
\* sent, with its status code and body, whatever that response is.
C11_RawResponseReturned ==
    (Done /\ op = "get_health_check" /\ response # NoResponse) =>
        result = Return("response", response, <<>>)

\* C12 (as claimed): a bulk file operation puts exactly one GET request on
\* the wire.
C12_OneGetRequest ==
    (Done /\ op \in BulkOps) => attempts = 1

\* C12 (amended): a bulk file operation is one httpx.get call, which sends one
\* GET and one more for each redirect it follows; the retry wrapper is not
\* entered (no try counted, no sleep) and call_api is not called, with retry
\* enabled or disabled and when the fetch fails.
C12_OneCallNotRetried ==
    op \in BulkOps =>
        /\ pc = "done"
        /\ attempts = 1 + redirects
        /\ tries = 0
        /\ seconds = 0
        /\ outcome = NoOutcome

\* Retry is enabled with budget left, and a bulk fetch that followed a
\* redirect and then failed in transport ended without another try.
C12_Witness ==
    /\ Done
    /\ op \in BulkOps
    /\ Retrying
    /\ backoff_max_time > 0
    /\ result = Raise("RequestError")
    /\ redirects > 0
    /\ attempts = 1 + redirects

\* C13: no step of any operation, of either thread, changes the client's base
\* URL, retry flag, retry budget, bulk file format, file name table or
\* installed dispatcher.
C13_ClientStateUnchanged ==
    [][clientVars' = clientVars]_vars

\* One thread's call has failed while the other thread's call is in flight
\* or asleep between tries, and the client is as constructed.
C13_Witness ==
    /\ Done
    /\ result.kind = "raise"
    /\ peer.pc \in {"inflight", "sleep"}
    /\ dispatcher = Installed(backoff)
    /\ BULK_FILE_NAMES = BulkFileNames(bulk_file_format)

====
